---- MODULE Spec2Model ----
(***************************************************************************)
(* A model of the local-variable allocator (cubecl-core ir/allocator.rs)   *)
(* and of the matmul strategy dispatcher (cubecl-linalg matmul/base.rs).   *)
(*                                                                         *)
(* Spec        the allocator with every public operation                   *)
(* PoolSpec    the allocator driven through create_local_mut and drops     *)
(* SharedSpec  the allocator with cloned handles                           *)
(* LaunchSpec  the dispatcher launch / launch_ref                          *)
(* TestSpec    the test launcher's test_matmul_algorithm, step by step     *)
(* CubeSpec    the standard algorithm's cube_count                         *)
(* TensorSpec  the test launcher's tensor_raw_parts, shape and strides     *)
(* PipeSpec    the emission of PipelineOps                                 *)
(* VectorSpec  Vectorized for the float and int elements                   *)
(***************************************************************************)
EXTENDS Integers, Sequences, FiniteSets, Bags, TLC

\* ------------------------------------------------------------------ bounds
\* ids issued in one compilation
MaxId == 3
\* bindings the callers hold at one time
MaxHeld == 2
\* allocator handles (the first one and its clones)
MaxHandles == 2

\* ------------------------------------------------------------------- items
\* Item { elem, vectorization }; vectorization 0 stands for None.
Item(elem, vectorization) == [elem |-> elem, vectorization |-> vectorization]

Items ==
    { Item("Float", 0), Item("Float", 4), Item("Int", 0), Item("AtomicInt", 0) }

\* Elem::is_atomic
is_atomic(elem) == elem = "AtomicInt"

\* Item::new(elem): no vectorization
ItemNew(elem) == Item(elem, 0)

\* Matrix { ident, elem, .. } values handed to create_matrix
Matrices == { [ident |-> "Accumulator", elem |-> "Float"] }

\* the items handed to the operations that never pool
PlainItems == { Item("Float", 0), Item("AtomicInt", 0) }

\* array_size values handed to create_local_array
ArraySizes == {2}

\* ------------------------------------------------------------------- state
VARIABLES
    allocators,   \* the Allocator handles: [local_mut_pool, next_id], both Rc pointers
    pools,        \* heap of RefCell<HashMap<Item, Vec<ExpandElement>>>, by pointer
    counters,     \* heap of AtomicU32, by pointer
    rcs,          \* heap of Rc<Variable>: [var, strong], by pointer; via: the handle that made it
    held,         \* bag of the managed bindings callers hold: [elem, orig]
    last,         \* the last operation and what it returned
    issued,       \* history: the ids new_local_index returned, in order
    plain_ids,    \* history: ids issued by the five non-pooled operations
    atomic_ids,   \* history: ids issued by create_local_mut for atomic items
    mut_ids,      \* history: per item, the ids create_local_mut returned
    hwm,          \* history: per item, the most bindings held at one time
    pc,           \* dispatcher: position in launch / launch_ref
    entry,        \* dispatcher: the entry point called
    strategy,     \* dispatcher: the Strategy of the call
    device,       \* dispatcher: what the kernel launches will find
    attempt,      \* dispatcher: result of the composed algorithm's launch_ref
    calls,        \* dispatcher: the kernel entry points this call invoked, in order
    result,       \* dispatcher: what the call handed back
    run,          \* test launcher: position, inputs and trace of test_matmul_algorithm
    cube,         \* cube_count: its inputs and what it returned
    tensor,       \* tensor_raw_parts: the problem and the tensors built from it
    emitted,      \* pipeline: the operations formatted so far and the text written
    numeric       \* Vectorized: the element, the factor and the value handed back

allocVars ==
    <<allocators, pools, counters, rcs, held, last, issued, plain_ids, atomic_ids,
      mut_ids, hwm>>

launchVars == <<pc, entry, strategy, device, attempt, calls, result>>

otherVars == <<run, cube, tensor, emitted, numeric>>

vars == <<allocVars, launchVars, otherVars>>

\* --------------------------------------------------------------- variables
\* Option::None
None == [tag |-> "None"]

\* VariableKind
LocalConst(id) == [variant |-> "LocalConst", id |-> id]

LocalMut(id) == [variant |-> "LocalMut", id |-> id]

LocalArray(id, length) == [variant |-> "LocalArray", id |-> id, length |-> length]

Slice(id) == [variant |-> "Slice", id |-> id]

Matrix(id, mat) == [variant |-> "Matrix", id |-> id, mat |-> mat]

\* Variable::new(kind, item)
VariableNew(kind, item) == [kind |-> kind, item |-> item]

\* ExpandElement::Plain(Variable) and ExpandElement::Managed(Rc<Variable>)
Plain(var) == [tag |-> "Plain", var |-> var]

Managed(rc) == [tag |-> "Managed", rc |-> rc]

\* the Variable an ExpandElement stands for
VarOf(e) == IF e.tag = "Managed" THEN rcs[e.rc].var ELSE e.var

\* Rc::strong_count
strong_count(rc) == rcs[rc].strong

SetMax(S) == CHOOSE x \in S : \A y \in S : y <= x

\* ------------------------------------------------------------ the allocator
\* fetch_add as a load: the counter is read and never advanced
fetch_add_lost(v) == v

\* AtomicU32::fetch_add(1): the stored value after the call. The counter wraps
\* at 2^32, which no run of at most MaxId allocations comes near.
fetch_add(v) == v + 1

\* Allocator::new_local_index: the id handed out (the value before the add)
new_local_index(a) == counters[a.next_id]

\* the id counter after new_local_index
CountersAfterIndex(a) == [counters EXCEPT ![a.next_id] = fetch_add(@)]

\* a pool keyed by the element type alone
CandidatesByElem(a, item) == pools[a.local_mut_pool][ItemNew(item.elem)]

\* the candidates of reuse_local_mut: pool.get(&item)
Candidates(a, item) == pools[a.local_mut_pool][item]

\* the find without the strong-count test: any pooled element counts as free
IsFreeUnchecked(var) == var.tag = "Managed"

\* the test of reuse_local_mut's find
IsFree(var) == var.tag = "Managed" /\ strong_count(var.rc) = 1

\* a reuse_local_mut that never finds a candidate
reuse_local_mut_never(a, item) == None

\* Allocator::reuse_local_mut: the last candidate only the pool references
reuse_local_mut(a, item) ==
    LET variables == Candidates(a, item)
        free == { i \in DOMAIN variables : IsFree(variables[i]) }
    IN  IF free = {} THEN None ELSE variables[SetMax(free)]

\* a binding in a caller's hands: `orig` when an allocator call returned it,
\* not `orig` when the caller cloned it
Binding(elem, orig) == [elem |-> elem, orig |-> orig]

\* the bindings of `item` that callers hold, as a number of distinct Rc
Live(hd, heap, item) ==
    Cardinality({ b.elem.rc : b \in { c \in BagToSet(hd) : heap[c.elem.rc].var.item = item } })

HwmAfter(hd, heap) ==
    [it \in Items |-> IF Live(hd, heap, it) > hwm[it] THEN Live(hd, heap, it) ELSE hwm[it]]

Last(op, h, item, ret) == [op |-> op, h |-> h, item |-> item, ret |-> ret]

\* a fresh id goes out as ExpandElement::Plain(var); nothing is pooled
ReturnPlain(op, h, item, id, var) ==
    /\ Len(issued) < MaxId
    /\ counters' = CountersAfterIndex(allocators[h])
    /\ issued' = Append(issued, id)
    /\ last' = Last(op, h, item, Plain(var))
    /\ plain_ids' = IF op = "create_local_mut" THEN plain_ids ELSE plain_ids \cup {id}
    /\ atomic_ids' = IF op = "create_local_mut" THEN atomic_ids \cup {id} ELSE atomic_ids
    /\ mut_ids' = IF op = "create_local_mut"
                     THEN [mut_ids EXCEPT ![item] = @ \cup {id}]
                     ELSE mut_ids
    /\ UNCHANGED <<allocators, pools, rcs, held, hwm>>
    /\ UNCHANGED <<launchVars, otherVars>>

\* a push that lands on the list of every item
PoolPushEvery(pool, item, expand) == [it \in DOMAIN pool |-> Append(pool[it], expand)]

\* the pool after variables.push(expand) on pool.entry(item).or_default()
PoolPush(pool, item, expand) == [pool EXCEPT ![item] = Append(@, expand)]

\* body of Allocator::add_local_mut, entered by `op`: a new Rc<Variable>, one
\* clone pushed on the pool, the Rc itself returned (strong count 2)
AddLocalMut(op, h, item) ==
    LET a == allocators[h]
        id == new_local_index(a)
        rc == Len(rcs) + 1
        heap == Append(rcs, [var |-> VariableNew(LocalMut(id), item), strong |-> 2, via |-> h])
        hd == held (+) SetToBag({Binding(Managed(rc), TRUE)})
    IN  /\ Len(issued) < MaxId
        /\ BagCardinality(held) < MaxHeld
        /\ counters' = CountersAfterIndex(a)
        /\ issued' = Append(issued, id)
        /\ rcs' = heap
        /\ pools' = [pools EXCEPT ![a.local_mut_pool] = PoolPush(@, item, Managed(rc))]
        /\ held' = hd
        /\ hwm' = HwmAfter(hd, heap)
        /\ last' = Last(op, h, item, Managed(rc))
        /\ mut_ids' = IF op = "create_local_mut"
                         THEN [mut_ids EXCEPT ![item] = @ \cup {id}]
                         ELSE mut_ids
        /\ UNCHANGED <<allocators, plain_ids, atomic_ids>>
        /\ UNCHANGED <<launchVars, otherVars>>

\* Allocator::create_local
create_local(h, item) ==
    LET id == new_local_index(allocators[h])
    IN  ReturnPlain("create_local", h, item, id, VariableNew(LocalConst(id), item))

\* body of Allocator::create_local_restricted, entered by `op`
CreateLocalRestricted(op, h, item) ==
    LET id == new_local_index(allocators[h])
    IN  ReturnPlain(op, h, item, id, VariableNew(LocalMut(id), item))

\* a create_local_restricted that registers its variable in the pool
create_local_restricted_pooled(h, item) ==
    AddLocalMut("create_local_restricted", h, item)

\* Allocator::create_local_restricted
create_local_restricted(h, item) ==
    CreateLocalRestricted("create_local_restricted", h, item)

\* Allocator::create_local_array
create_local_array(h, item, array_size) ==
    LET id == new_local_index(allocators[h])
    IN  ReturnPlain("create_local_array", h, item, id,
                    VariableNew(LocalArray(id, array_size), item))

\* Allocator::create_slice
create_slice(h, item) ==
    LET id == new_local_index(allocators[h])
    IN  ReturnPlain("create_slice", h, item, id, VariableNew(Slice(id), item))

\* Allocator::create_matrix
create_matrix(h, matrix) ==
    LET id == new_local_index(allocators[h])
    IN  ReturnPlain("create_matrix", h, ItemNew(matrix.elem), id,
                    VariableNew(Matrix(id, matrix), ItemNew(matrix.elem)))

\* Allocator::add_local_mut, called directly
add_local_mut(h, item) == AddLocalMut("add_local_mut", h, item)

\* create_local_mut returning `found`, a clone of a pooled element
ReturnReused(h, item, found) ==
    LET heap == [rcs EXCEPT ![found.rc].strong = @ + 1]
        hd == held (+) SetToBag({Binding(found, TRUE)})
    IN  /\ BagCardinality(held) < MaxHeld
        /\ rcs' = heap
        /\ held' = hd
        /\ hwm' = HwmAfter(hd, heap)
        /\ last' = Last("create_local_mut", h, item, found)
        /\ mut_ids' = [mut_ids EXCEPT ![item] = @ \cup {VarOf(found).kind.id}]
        /\ UNCHANGED <<allocators, pools, counters, issued, plain_ids, atomic_ids>>
        /\ UNCHANGED <<launchVars, otherVars>>

\* create_local_mut without the is_atomic test: atomic items are pooled too
create_local_mut_no_atomic_test(h, item) ==
    LET found == reuse_local_mut(allocators[h], item)
    IN  IF found # None
        THEN ReturnReused(h, item, found)
        ELSE AddLocalMut("create_local_mut", h, item)

\* Allocator::create_local_mut
create_local_mut(h, item) ==
    IF is_atomic(item.elem)
    THEN CreateLocalRestricted("create_local_mut", h, item)
    ELSE LET found == reuse_local_mut(allocators[h], item)
         IN  IF found # None
             THEN ReturnReused(h, item, found)
             ELSE AddLocalMut("create_local_mut", h, item)

\* a caller clones a binding it holds: Rc::clone
CloneBinding(b) ==
    LET heap == [rcs EXCEPT ![b.elem.rc].strong = @ + 1]
        hd == held (+) SetToBag({Binding(b.elem, FALSE)})
    IN  /\ BagCardinality(held) < MaxHeld
        /\ rcs' = heap
        /\ held' = hd
        /\ hwm' = HwmAfter(hd, heap)
        /\ last' = Last("clone", rcs[b.elem.rc].via, VarOf(b.elem).item, b.elem)
        /\ UNCHANGED <<allocators, pools, counters, issued, plain_ids, atomic_ids, mut_ids>>
        /\ UNCHANGED <<launchVars, otherVars>>

\* a caller drops a binding it holds: Rc::drop
DropBinding(b) ==
    LET heap == [rcs EXCEPT ![b.elem.rc].strong = @ - 1]
        hd == held (-) SetToBag({b})
    IN  /\ rcs' = heap
        /\ held' = hd
        /\ hwm' = HwmAfter(hd, heap)
        /\ last' = Last("drop", rcs[b.elem.rc].via, VarOf(b.elem).item, b.elem)
        /\ UNCHANGED <<allocators, pools, counters, issued, plain_ids, atomic_ids, mut_ids>>
        /\ UNCHANGED <<launchVars, otherVars>>

\* a Clone that copies the counter's value into a counter of the clone's own
AllocatorCloneOwnCounter(h) ==
    /\ Len(allocators) < MaxHandles
    /\ counters' = Append(counters, counters[allocators[h].next_id])
    /\ allocators' = Append(allocators, [allocators[h] EXCEPT !.next_id = Len(counters) + 1])
    /\ last' = Last("clone_allocator", h, last.item, None)
    /\ UNCHANGED <<pools, rcs, held, issued, plain_ids, atomic_ids, mut_ids, hwm>>
    /\ UNCHANGED <<launchVars, otherVars>>

\* #[derive(Clone)] on Allocator: both Rc fields are cloned, the pointers copied
AllocatorClone(h) ==
    /\ Len(allocators) < MaxHandles
    /\ allocators' = Append(allocators, allocators[h])
    /\ last' = Last("clone_allocator", h, last.item, None)
    /\ UNCHANGED <<pools, counters, rcs, held, issued, plain_ids, atomic_ids, mut_ids, hwm>>
    /\ UNCHANGED <<launchVars, otherVars>>

\* --------------------------------------------------------------- behaviours
\* Allocator::default(): an empty pool, the counter at 0; the dispatcher idle
CoreInit ==
    /\ allocators = << [local_mut_pool |-> 1, next_id |-> 1] >>
    /\ pools = << [it \in Items |-> << >>] >>
    /\ counters = << 0 >>
    /\ rcs = << >>
    /\ held = EmptyBag
    /\ last = Last("default", 1, Item("Float", 0), None)
    /\ issued = << >>
    /\ plain_ids = {}
    /\ atomic_ids = {}
    /\ mut_ids = [it \in Items |-> {}]
    /\ hwm = [it \in Items |-> 0]
    /\ pc = "idle"
    /\ entry = "none"
    /\ strategy = [name |-> "none", config |-> "none"]
    /\ device = "none"
    /\ attempt = "none"
    /\ calls = << >>
    /\ result = "none"

\* nothing of the test launcher, cube_count, the pipeline or Vectorized has run
OtherIdle ==
    /\ run = [pc |-> "idle"]
    /\ cube = [pc |-> "idle"]
    /\ tensor = [pc |-> "idle"]
    /\ emitted = [pc |-> "idle"]
    /\ numeric = [pc |-> "idle"]

Init == CoreInit /\ OtherIdle

\* every operation of the allocator on one handle
Next ==
    \/ \E h \in DOMAIN allocators, item \in PlainItems : create_local(h, item)
    \/ \E h \in DOMAIN allocators, item \in Items : create_local_mut(h, item)
    \/ \E h \in DOMAIN allocators, item \in PlainItems : create_local_restricted(h, item)
    \/ \E h \in DOMAIN allocators, item \in PlainItems, n \in ArraySizes :
            create_local_array(h, item, n)
    \/ \E h \in DOMAIN allocators, item \in PlainItems : create_slice(h, item)
    \/ \E h \in DOMAIN allocators, m \in Matrices : create_matrix(h, m)
    \/ \E h \in DOMAIN allocators, item \in PlainItems : add_local_mut(h, item)
    \/ \E b \in BagToSet(held) : CloneBinding(b)
    \/ \E b \in BagToSet(held) : DropBinding(b)

Spec == Init /\ [][Next]_vars

\* the allocator driven only through create_local_mut, clones and drops
PoolNext ==
    \/ \E h \in DOMAIN allocators, item \in Items : create_local_mut(h, item)
    \/ \E b \in BagToSet(held) : CloneBinding(b)
    \/ \E b \in BagToSet(held) : DropBinding(b)

PoolSpec == Init /\ [][PoolNext]_vars

\* the items asked of create_local_mut through a handle and its clones
SharedItems == { Item("Float", 0), Item("Float", 4) }

\* a handle and its clones: pooled and plain allocations through any of them
SharedNext ==
    \/ \E h \in DOMAIN allocators : AllocatorClone(h)
    \/ \E h \in DOMAIN allocators, item \in SharedItems : create_local_mut(h, item)
    \/ \E h \in DOMAIN allocators, item \in {Item("Float", 0)} : create_local(h, item)
    \/ \E b \in BagToSet(held) : DropBinding(b)

SharedSpec == Init /\ [][SharedNext]_vars

\* ----------------------------------------------------------- the dispatcher
\* enum Strategy; Tiling2D carries a Tiling2dConfig
Strategies ==
    { [name |-> n, config |-> "none"] :
        n \in {"Standard", "Pipelined", "Specialized", "PlaneMma", "Simple", "Auto"} }
    \cup { [name |-> "Tiling2D", config |-> c] : c \in {"default", "custom"} }

\* the kinds of MatmulLaunchError
MatmulLaunchErrors == {"Unavailable", "InvalidConfig"}

\* what the kernel entry points will answer on this device for this problem:
\* the composed algorithm's launch and the simple kernel's launch
Devices ==
    [matmul : {"Ok"} \cup MatmulLaunchErrors, simple : {"Ok"} \cup MatmulLaunchErrors]

\* the selector a composed strategy binds
Selector(name) ==
    CASE name = "Standard" -> "StandardSelector<Accelerated>"
      [] name = "Pipelined" -> "PipelinedSelector<Accelerated>"
      [] name = "Specialized" -> "SpecializedSelector<Accelerated>"
      [] name = "PlaneMma" -> "StandardSelector<PlaneMma>"

\* kernels::matmul::launch_ref::<R, EG, selector>: Ok(()) or an error
matmul_launch_ref(selector, d) == d.matmul

\* kernels::simple::launch_ref: Ok(()) or an error
simple_launch_ref(d) == d.simple

\* Tiling2dConfig::default()
Tiling2dConfigDefault == "default"

Call(callee, arg, outcome) == [callee |-> callee, arg |-> arg, outcome |-> outcome]

\* launch: the owned handles are borrowed and handed to launch_ref
launch(s, d) ==
    /\ pc = "idle"
    /\ pc' = "launch"
    /\ entry' = "launch"
    /\ strategy' = s
    /\ device' = d
    /\ UNCHANGED <<attempt, calls, result>>
    /\ UNCHANGED <<allocVars, otherVars>>

launch_delegates ==
    /\ pc = "launch"
    /\ pc' = "launch_ref"
    /\ UNCHANGED <<entry, strategy, device, attempt, calls, result>>
    /\ UNCHANGED <<allocVars, otherVars>>

\* launch_ref called by the user
launch_ref(s, d) ==
    /\ pc = "idle"
    /\ pc' = "launch_ref"
    /\ entry' = "launch_ref"
    /\ strategy' = s
    /\ device' = d
    /\ UNCHANGED <<attempt, calls, result>>
    /\ UNCHANGED <<allocVars, otherVars>>

\* a composed arm that reports an unavailable algorithm as a success
ComposedResultSwallowed(r) == IF r = "Unavailable" THEN "Ok" ELSE r

\* what a composed arm hands back for the algorithm's result
ComposedResult(r) == r

\* the arms Standard, Pipelined, Specialized and PlaneMma
ComposedArm ==
    /\ pc = "launch_ref"
    /\ strategy.name \in {"Standard", "Pipelined", "Specialized", "PlaneMma"}
    /\ LET r == matmul_launch_ref(Selector(strategy.name), device)
       IN  /\ attempt' = r
           /\ calls' = Append(calls, Call("matmul::launch_ref", Selector(strategy.name), r))
           /\ result' = ComposedResult(r)
    /\ pc' = "returned"
    /\ UNCHANGED <<entry, strategy, device>>
    /\ UNCHANGED <<allocVars, otherVars>>

\* the arm Tiling2D(config)
Tiling2DArm ==
    /\ pc = "launch_ref"
    /\ strategy.name = "Tiling2D"
    /\ calls' = Append(calls, Call("tiling2d::launch_ref", strategy.config, "Ok"))
    /\ result' = "Ok"
    /\ pc' = "returned"
    /\ UNCHANGED <<entry, strategy, device, attempt>>
    /\ UNCHANGED <<allocVars, otherVars>>

\* the arm Simple: simple::launch_ref(..)?; Ok(())
SimpleArm ==
    /\ pc = "launch_ref"
    /\ strategy.name = "Simple"
    /\ LET r == simple_launch_ref(device)
       IN  /\ attempt' = r
           /\ calls' = Append(calls, Call("simple::launch_ref", "none", r))
           /\ result' = r
    /\ pc' = "returned"
    /\ UNCHANGED <<entry, strategy, device>>
    /\ UNCHANGED <<allocVars, otherVars>>

\* the arm Auto: the Standard attempt
AutoAttempt ==
    /\ pc = "launch_ref"
    /\ strategy.name = "Auto"
    /\ LET r == matmul_launch_ref(Selector("Standard"), device)
       IN  /\ attempt' = r
           /\ calls' = Append(calls, Call("matmul::launch_ref", Selector("Standard"), r))
    /\ pc' = "auto_matched"
    /\ UNCHANGED <<entry, strategy, device, result>>
    /\ UNCHANGED <<allocVars, otherVars>>

\* a match that lets an Unavailable error pass without the fallback
AutoMatchNoFallback(r) ==
    IF r = "Ok" \/ r = "Unavailable" THEN "ok" ELSE "panic"

\* a match that falls back on every error
AutoMatchAnyError(r) ==
    IF r = "Ok" THEN "ok" ELSE "fallback"

\* the arm Auto: `if let Err(err)` and `match err`
AutoMatch(r) ==
    IF r = "Ok" THEN "ok"
    ELSE IF r = "Unavailable" THEN "fallback"
    ELSE "panic"

\* the arm Auto: tiling2d::launch_ref with Tiling2dConfig::default()
AutoFallback ==
    /\ pc = "auto_matched"
    /\ AutoMatch(attempt) = "fallback"
    /\ calls' = Append(calls, Call("tiling2d::launch_ref", Tiling2dConfigDefault, "Ok"))
    /\ pc' = "auto_ok"
    /\ UNCHANGED <<entry, strategy, device, attempt, result>>
    /\ UNCHANGED <<allocVars, otherVars>>

\* the arm Auto: panic!("{err:?}")
AutoPanic ==
    /\ pc = "auto_matched"
    /\ AutoMatch(attempt) = "panic"
    /\ result' = "panic"
    /\ pc' = "panicked"
    /\ UNCHANGED <<entry, strategy, device, attempt, calls>>
    /\ UNCHANGED <<allocVars, otherVars>>

\* the arm Auto: the closing Ok(())
AutoOk ==
    /\ \/ pc = "auto_matched" /\ AutoMatch(attempt) = "ok"
       \/ pc = "auto_ok"
    /\ result' = "Ok"
    /\ pc' = "returned"
    /\ UNCHANGED <<entry, strategy, device, attempt, calls>>
    /\ UNCHANGED <<allocVars, otherVars>>

\* the caller takes the result; the next call starts afresh
NextCall ==
    /\ pc = "returned"
    /\ pc' = "idle"
    /\ entry' = "none"
    /\ strategy' = [name |-> "none", config |-> "none"]
    /\ device' = "none"
    /\ attempt' = "none"
    /\ calls' = << >>
    /\ result' = "none"
    /\ UNCHANGED <<allocVars, otherVars>>

LaunchNext ==
    \/ \E s \in Strategies, d \in Devices : launch(s, d)
    \/ launch_delegates
    \/ \E s \in Strategies, d \in Devices : launch_ref(s, d)
    \/ ComposedArm
    \/ Tiling2DArm
    \/ SimpleArm
    \/ AutoAttempt
    \/ AutoFallback
    \/ AutoPanic
    \/ AutoOk
    \/ NextCall

LaunchSpec == Init /\ [][LaunchNext]_vars

\* ------------------------------------------------------------------ claims
\* the variable the last operation returned, and its id
RetVar == VarOf(last.ret)

RetId == RetVar.kind.id

\* the elements of every pool list of the pool `p`
Pooled(p) == UNION { { pools[p][it][i] : i \in DOMAIN pools[p][it] } : it \in Items }

\* C1: for a non-atomic item, the number of distinct ids create_local_mut
\* issued equals the most bindings of that item callers held at one time.
C1_IdsEqualHighWaterMark ==
    \A it \in Items :
        ~is_atomic(it.elem) => Cardinality(mut_ids[it]) = hwm[it]

\* a third create_local_mut call after two bindings were held and dropped
C1_Witness ==
    /\ last.op = "create_local_mut"
    /\ ~is_atomic(last.item.elem)
    /\ hwm[last.item] = 2
    /\ Cardinality(mut_ids[last.item]) = 2
    /\ Live(held, rcs, last.item) = 1

\* the step is a create_local_mut call that reused a pooled binding
ReuseStep ==
    /\ last'.op = "create_local_mut"
    /\ last'.ret.tag = "Managed"
    /\ issued' = issued

\* C2: two bindings returned by separate calls and both held have different
\* ids, and a pooled binding is handed out only at strong count one.
C2_NoLiveAliasing ==
    /\ [](\A b \in BagToSet(held) :
            /\ b.orig => CopiesIn(b, held) = 1
            /\ \A c \in BagToSet(held) :
                (b.orig /\ c.orig /\ b # c) => VarOf(b.elem).kind.id # VarOf(c.elem).kind.id)
    /\ [][ReuseStep => strong_count(last'.ret.rc) = 1]_vars

\* a pooled binding is reused while another binding of its item is held
C2_Witness ==
    /\ last.op = "create_local_mut"
    /\ last.ret.tag = "Managed"
    /\ last.ret.rc < Len(rcs)
    /\ \E b \in BagToSet(held) :
        /\ b.orig
        /\ b.elem # last.ret
        /\ VarOf(b.elem).item = last.item

\* C3: create_local_mut on an atomic item returns a restricted binding with a
\* fresh id, registers nothing, and no later create_local_mut returns it.
C3_AtomicBypassesPool ==
    /\ [](\A e \in UNION { Pooled(p) : p \in DOMAIN pools } :
            VarOf(e).kind.id \notin atomic_ids)
    /\ [][(last'.op = "create_local_mut" /\ is_atomic(last'.item.elem)) =>
            /\ last'.ret.tag = "Plain"
            /\ last'.ret.var = VariableNew(LocalMut(RetId'), last'.item)
            /\ \A i \in DOMAIN issued : issued[i] # RetId'
            /\ issued' = Append(issued, RetId')
            /\ pools' = pools
            /\ rcs' = rcs]_vars
    /\ [][last'.op = "create_local_mut" => RetId' \notin atomic_ids]_vars

\* a second atomic create_local_mut after the first one's binding is gone
C3_Witness ==
    /\ last.op = "create_local_mut"
    /\ is_atomic(last.item.elem)
    /\ Cardinality(atomic_ids) = 2

\* C4: every newly issued id, whatever the allocation kind, is greater than
\* every id issued before it.
C4_IdsStrictlyIncrease ==
    [][issued' # issued =>
        /\ issued' = Append(issued, RetId')
        /\ \A i \in DOMAIN issued : issued[i] < RetId']_vars

\* ids went to a plain, an atomic and a pooled allocation
C4_Witness ==
    /\ Len(issued) >= 3
    /\ plain_ids # {}
    /\ atomic_ids # {}
    /\ Len(rcs) > 0

\* the last step dropped the last binding callers held of an Rc
DroppedFree == last.op = "drop" /\ strong_count(last.ret.rc) = 1

\* the step is a create_local_mut of the dropped binding's item, issued
\* through another handle than the one that created the binding
NextMutThroughOtherClone ==
    /\ DroppedFree
    /\ last'.op = "create_local_mut"
    /\ last'.item = last.item
    /\ last'.h # rcs[last.ret.rc].via

\* every handle points to the pool and the counter of the first one, and no
\* id was issued twice
SharedState ==
    /\ \A h \in DOMAIN allocators : allocators[h] = allocators[1]
    /\ \A i, j \in DOMAIN issued : i # j => issued[i] # issued[j]

FreeAfter(p, item, e) ==
    { j \in DOMAIN pools[p][item] :
        /\ IsFree(pools[p][item][j])
        /\ \E i \in DOMAIN pools[p][item] : i < j /\ pools[p][item][i] = e }

PlainOps ==
    {"create_local", "create_local_restricted", "create_local_array", "create_slice",
     "create_matrix"}

\* C6: create_local, create_local_restricted, create_local_array, create_slice
\* and create_matrix return a fresh id, leave the pool unchanged, and no later
\* create_local_mut returns their binding.
C6_PlainNeverPooled ==
    /\ [][last'.op \in PlainOps =>
            /\ last'.ret.tag = "Plain"
            /\ \A i \in DOMAIN issued : issued[i] # RetId'
            /\ issued' = Append(issued, RetId')
            /\ pools' = pools
            /\ rcs' = rcs]_vars
    /\ [][last'.op = "create_local_mut" =>
            /\ RetId' \notin plain_ids
            /\ last.op \in PlainOps => RetVar' # RetVar]_vars

\* create_local_mut of an item after a restricted binding of the same item
C6_Witness ==
    /\ last.op = "create_local_mut"
    /\ last.ret.tag = "Managed"
    /\ \E i \in DOMAIN issued :
        /\ issued[i] \in plain_ids
        /\ issued[i] < RetId
    /\ Cardinality(plain_ids) >= 2

\* C7: create_local_mut(item) returns a binding of exactly that item; a free
\* binding pooled under another item is never returned.
C7_ReturnedItemIsRequested ==
    /\ last.op = "create_local_mut" => VarOf(last.ret).item = last.item
    /\ \A p \in DOMAIN pools : \A it \in Items : \A i \in DOMAIN pools[p][it] :
            VarOf(pools[p][it][i]).item = it

\* a new binding is made while free bindings of the same element type with
\* another vectorization, and of another element type, sit in the pool
C7_Witness ==
    /\ last.op = "create_local_mut"
    /\ last.ret.tag = "Managed"
    /\ last.ret.rc = Len(rcs)
    /\ strong_count(last.ret.rc) = 2
    /\ \E e \in Pooled(1) :
        /\ IsFree(e)
        /\ VarOf(e).item.elem = last.item.elem
        /\ VarOf(e).item.vectorization # last.item.vectorization

\* the call has ended: it returned, or the thread panicked
Ended == pc \in {"returned", "panicked"}

IsFallback(c) == c.callee = "tiling2d::launch_ref"

\* C8: with Auto, the Standard algorithm is attempted first; Tiling2D is
\* launched, once and with the default config, if and only if that attempt
\* failed with Unavailable, and the call returns Ok; a successful attempt
\* launches no Tiling2D.
C8_AutoFallsBackOnUnavailable ==
    strategy.name = "Auto" =>
        /\ calls # << >> =>
            calls[1] = Call("matmul::launch_ref", "StandardSelector<Accelerated>", attempt)
        /\ \A i \in DOMAIN calls :
            IsFallback(calls[i]) =>
                i = 2 /\ attempt = "Unavailable" /\ calls[i].arg = "default"
        /\ (Ended /\ attempt = "Unavailable") =>
            /\ Len(calls) = 2
            /\ IsFallback(calls[2])
            /\ pc = "returned"
            /\ result = "Ok"
        /\ (Ended /\ attempt = "Ok") =>
            /\ Len(calls) = 1
            /\ pc = "returned"
            /\ result = "Ok"

\* an Auto launch returned after the Standard attempt was unavailable
C8_Witness ==
    /\ strategy.name = "Auto"
    /\ pc = "returned"
    /\ attempt = "Unavailable"
    /\ result = "Ok"

\* C9: with Auto, a Standard attempt failing with another error than
\* Unavailable launches no fallback and the launch does not report success.
C9_AutoNoFallbackOnOtherErrors ==
    (strategy.name = "Auto" /\ attempt \in MatmulLaunchErrors \ {"Unavailable"}) =>
        /\ \A i \in DOMAIN calls : ~IsFallback(calls[i])
        /\ Len(calls) = 1
        /\ result # "Ok"
        /\ pc # "returned"

\* an Auto launch ended after the Standard attempt found the config invalid
C9_Witness ==
    /\ strategy.name = "Auto"
    /\ Ended
    /\ attempt = "InvalidConfig"

\* C10: Standard, Pipelined and Specialized hand back the algorithm's result
\* unchanged: an Unavailable error is returned as Unavailable, nothing else
\* is launched and the call does not panic.
C10_ComposedResultUnchanged ==
    (strategy.name \in {"Standard", "Pipelined", "Specialized"} /\ pc \notin {"launch", "launch_ref"}) =>
        /\ pc = "returned"
        /\ calls = << Call("matmul::launch_ref", Selector(strategy.name), device.matmul) >>
        /\ result = device.matmul

\* a Standard launch returned Unavailable
C10_Witness ==
    /\ strategy.name = "Standard"
    /\ pc = "returned"
    /\ device.matmul = "Unavailable"
    /\ result = "Unavailable"

\* C11: both entry points end, for every strategy and every outcome of the
\* kernel launches, by returning Ok or a MatmulLaunchError to the caller;
\* no call ends by panicking.
C11_AlwaysReturnsOkOrTypedError ==
    Ended =>
        /\ pc = "returned"
        /\ result \in {"Ok"} \cup MatmulLaunchErrors

\* ------------------------------------------------------- the test launcher
\* test_matmul_algorithm (matmul_test_launcher.rs), one action per call it makes

\* values of the environment variable MATMUL_TEST_MODE; "unset" when std::env::var fails
TestModes == {"unset", "panic", "skip", "other"}

\* let panic_on_launch_err = match env { .. }
panic_on_launch_err(env) == env = "panic"

\* what A::make_config, A::check_availability and the comparison of
\* assert_result will answer in this run
TestInputs ==
    [env : TestModes,
     make_config : {"Ok"} \cup MatmulLaunchErrors,
     check_availability : {"Ok", "Unavailable"},
     assert_equals_approx : {"Ok", "Err"}]

\* the step of the run at position from, recording event and moving to position to
RunStep(from, event, to) ==
    /\ run.pc = from
    /\ run' = [run EXCEPT !.pc = to, !.trace = Append(@, event)]
    /\ UNCHANGED <<allocVars, launchVars, cube, tensor, emitted, numeric>>

\* entry: read MATMUL_TEST_MODE and build the three tensors
test_matmul_algorithm(in) ==
    /\ run.pc = "idle"
    /\ run' = [pc |-> "line_sizes", in |-> in,
               panic_on_launch_err |-> panic_on_launch_err(in.env),
               trace |-> << "tensor_raw_parts" >>]
    /\ UNCHANGED <<allocVars, launchVars, cube, tensor, emitted, numeric>>

\* problem.lhs_line_size, rhs_line_size, out_line_size
tensor_line_size_parallel == RunStep("line_sizes", "tensor_line_size_parallel", "cube_dim")

\* let cube_dim = A::cube_dim(&selection)
cube_dim == RunStep("cube_dim", "cube_dim", "cube_count")

\* let cube_count = A::cube_count(&selection, &problem)
cube_count_step == RunStep("cube_count", "cube_count", "make_config")

\* A::make_config(..) => Ok(config)
make_config_ok ==
    /\ run.pc = "make_config"
    /\ run.in.make_config = "Ok"
    /\ RunStep("make_config", "make_config", "check_availability")

\* A::make_config(..) => Err(err): panic!, or println! and return
make_config_err ==
    /\ run.pc = "make_config"
    /\ run.in.make_config # "Ok"
    /\ IF run.panic_on_launch_err
       THEN RunStep("make_config", "make_config", "panicked")
       ELSE RunStep("make_config", "make_config", "returned")

\* A::check_availability(..) is Ok
check_availability_ok ==
    /\ run.pc = "check_availability"
    /\ run.in.check_availability = "Ok"
    /\ RunStep("check_availability", "check_availability", "launch_unchecked")

\* a check_availability that went on to the launch whatever it found
check_availability_err_ignored ==
    /\ run.pc = "check_availability"
    /\ run.in.check_availability # "Ok"
    /\ RunStep("check_availability", "check_availability", "launch_unchecked")

\* A::check_availability(..).is_err(): println!, client.flush(), return
check_availability_err ==
    /\ run.pc = "check_availability"
    /\ run.in.check_availability # "Ok"
    /\ run' = [run EXCEPT !.pc = "returned",
                          !.trace = @ \o << "check_availability", "flush" >>]
    /\ UNCHANGED <<allocVars, launchVars, cube, tensor, emitted, numeric>>

\* A::BatchMatmul::launch_unchecked(..)
launch_unchecked == RunStep("launch_unchecked", "launch_unchecked", "assert_result")

\* assert_result: panics when the output differs from the CPU reference
assert_result ==
    IF run.pc = "assert_result" /\ run.in.assert_equals_approx = "Err"
    THEN RunStep("assert_result", "assert_result", "panicked")
    ELSE RunStep("assert_result", "assert_result", "returned")

TestInit == CoreInit /\ OtherIdle

TestNext ==
    \/ \E in \in TestInputs : test_matmul_algorithm(in)
    \/ tensor_line_size_parallel
    \/ cube_dim
    \/ cube_count_step
    \/ make_config_ok
    \/ make_config_err
    \/ check_availability_ok
    \/ check_availability_err
    \/ launch_unchecked
    \/ assert_result

TestSpec == TestInit /\ [][TestNext]_vars

\* the run has made the call named e
Occurs(e) == \E i \in DOMAIN run.trace : run.trace[i] = e

\* C12: the composed kernel is launched only after, in this order, the grid
\* was computed (cube_dim, then cube_count), make_config returned a config
\* and check_availability succeeded; when make_config or check_availability
\* fails no kernel is launched and no result is compared.
C12_LaunchOnlyAfterChecks ==
    run.pc # "idle" =>
        /\ Occurs("launch_unchecked") =>
            /\ run.in.make_config = "Ok"
            /\ run.in.check_availability = "Ok"
            /\ \E a, b, c, d, e \in DOMAIN run.trace :
                /\ a < b /\ b < c /\ c < d /\ d < e
                /\ run.trace[a] = "cube_dim"
                /\ run.trace[b] = "cube_count"
                /\ run.trace[c] = "make_config"
                /\ run.trace[d] = "check_availability"
                /\ run.trace[e] = "launch_unchecked"
                /\ \A x \in 1..(e - 1) : run.trace[x] # "launch_unchecked"
        /\ (run.in.make_config # "Ok" \/ run.in.check_availability # "Ok") =>
            /\ ~Occurs("launch_unchecked")
            /\ ~Occurs("assert_result")
        /\ Occurs("assert_result") => Occurs("launch_unchecked")

\* the kernel was launched and its result compared
C12_Witness ==
    /\ run.pc = "returned"
    /\ Occurs("launch_unchecked")
    /\ Occurs("assert_result")

\* ------------------------------------------------------------- cube_count
\* StandardAlgorithm::cube_count (kernels/matmul/algorithm/standard.rs).
\* A usize or u32 value is written in 16-bit limbs, [top, hi, lo] standing for
\* top * 2^32 + hi * 2^16 + lo, so that values next to 2^32 can be computed with.

\* the small extents tried, from 0 and down from 2^32 - 1
MaxExtent == 3

\* 2^16, the weight of one limb
Limb == 65536

Wide(top, hi, lo) == [top |-> top, hi |-> hi, lo |-> lo]

\* `x as u32`: the low 32 bits
as_u32(x) == Wide(0, x.hi, x.lo)

\* a + b and a - b before the result is fitted into 32 bits; top is 1 past
\* 2^32 - 1 and -1 below 0
AddWide(a, b) ==
    LET lo == a.lo + b.lo
        hi == a.hi + b.hi + (lo \div Limb)
    IN  Wide(a.top + b.top + (hi \div Limb), hi % Limb, lo % Limb)

SubWide(a, b) ==
    LET lo == a.lo - b.lo
        hi == a.hi - b.hi - (IF lo < 0 THEN 1 ELSE 0)
    IN  Wide(a.top - b.top - (IF hi < 0 THEN 1 ELSE 0), (hi + Limb) % Limb, (lo + Limb) % Limb)

\* u32 / u32 for a divisor below 2^15, a limb at a time
DivWide(a, s) ==
    LET r == a.hi % s.lo
    IN  Wide(0, a.hi \div s.lo, (r * Limb + a.lo) \div s.lo)

\* u32 * u32 of two values below 2^15, whose product never leaves u32
MulSmall(a, b) == Wide(0, (a.lo * b.lo) \div Limb, (a.lo * b.lo) % Limb)

\* a u32 operation whose exact result is x: with overflow checks (debug
\* builds) a result outside u32 panics, without them it wraps
Panic == [panic |-> TRUE]

IsPanic(x) == "panic" \in DOMAIN x

Fit(x, overflow_checks) ==
    IF x.top = 0 THEN x
    ELSE IF overflow_checks THEN Panic
    ELSE as_u32(x)

\* Dispatch::cube_count(cubes_for_m, cubes_for_n, batches): the three counts it is handed
CubeCount(cubes_for_m, cubes_for_n, batches) ==
    [cubes_for_m |-> cubes_for_m, cubes_for_n |-> cubes_for_n, batches |-> batches]

One == Wide(0, 0, 1)

\* (dim as u32 + stage - 1) / stage, left to right
CubesFor(dim, stage, overflow_checks) ==
    LET sum == Fit(AddWide(as_u32(dim), stage), overflow_checks)
        less == IF IsPanic(sum) THEN Panic ELSE Fit(SubWide(sum, One), overflow_checks)
    IN  IF IsPanic(less) THEN Panic ELSE DivWide(less, stage)

cube_count(selection, problem, overflow_checks) ==
    LET m_stage == MulSmall(selection.num_stagess.m, selection.tile.m)
        n_stage == MulSmall(selection.num_stagess.n, selection.tile.n)
        cubes_for_m == CubesFor(problem.m, m_stage, overflow_checks)
        cubes_for_n == CubesFor(problem.n, n_stage, overflow_checks)
    IN  IF IsPanic(cubes_for_m) \/ IsPanic(cubes_for_n) THEN Panic
        ELSE CubeCount(cubes_for_m, cubes_for_n, as_u32(problem.num_batches))

\* problem extents: the smallest, the largest a u32 holds, and one past them
Extents ==
    { Wide(0, 0, x) : x \in 0..MaxExtent }
        \cup { Wide(0, Limb - 1, Limb - 1 - x) : x \in 0..MaxExtent }
        \cup { Wide(1, 0, 0) }

\* MatmulSize extents of the selection: stage counts and tile sizes
StageCounts == { Wide(0, 0, 1), Wide(0, 0, 2) }
TileSizes == { Wide(0, 0, 1), Wide(0, 0, 16) }

Selections ==
    [num_stagess : [m : StageCounts, n : {Wide(0, 0, 1)}],
     tile : [m : TileSizes, n : TileSizes]]

CubeProblems == [m : Extents, n : Extents, num_batches : {Wide(0, 0, 1), Wide(0, 0, 3)}]

CubeInit ==
    /\ CoreInit
    /\ run = [pc |-> "idle"]
    /\ tensor = [pc |-> "idle"]
    /\ emitted = [pc |-> "idle"]
    /\ numeric = [pc |-> "idle"]
    /\ \E selection \in Selections, problem \in CubeProblems, overflow_checks \in BOOLEAN :
        cube = [pc |-> "ready", selection |-> selection, problem |-> problem,
                overflow_checks |-> overflow_checks]

\* the call A::cube_count(&selection, &problem)
cube_count_call ==
    /\ cube.pc = "ready"
    /\ cube' = [pc |-> "done", selection |-> cube.selection, problem |-> cube.problem,
                overflow_checks |-> cube.overflow_checks,
                out |-> cube_count(cube.selection, cube.problem, cube.overflow_checks)]
    /\ UNCHANGED <<allocVars, launchVars, run, tensor, emitted, numeric>>

CubeNext == cube_count_call

CubeSpec == CubeInit /\ [][CubeNext]_vars

\* a * s for a count a and a stage extent s below 2^15; hi may pass one limb
MulWide(a, s) ==
    LET lo == a.lo * s.lo
    IN  [hi |-> a.hi * s.lo + (lo \div Limb), lo |-> lo % Limb]

\* a < b for two values below 2^48 written as [hi, lo]
LessWide(a, b) == a.hi < b.hi \/ (a.hi = b.hi /\ a.lo < b.lo)

\* cubes is the ceiling of dim / stage: cubes * stage >= dim and
\* (cubes - 1) * stage < dim
IsCeilDiv(cubes, dim, stage) ==
    /\ ~LessWide(MulWide(cubes, stage), dim)
    /\ \/ cubes = Wide(0, 0, 0)
       \/ LessWide(MulWide(SubWide(cubes, One), stage), dim)

\* C13: for every m and n that a u32 holds and every positive stage extent,
\* cube_count hands the dispatch policy cubes_for_m = ceil(m / (num_stages.m *
\* tile.m)) and cubes_for_n = ceil(n / (num_stages.n * tile.n)), together
\* with the number of batches.
C13_CubeCountIsCeilDiv ==
    (cube.pc = "done" /\ cube.problem.m.top = 0 /\ cube.problem.n.top = 0) =>
        /\ ~IsPanic(cube.out)
        /\ IsCeilDiv(cube.out.cubes_for_m, cube.problem.m,
                     MulSmall(cube.selection.num_stagess.m, cube.selection.tile.m))
        /\ IsCeilDiv(cube.out.cubes_for_n, cube.problem.n,
                     MulSmall(cube.selection.num_stagess.n, cube.selection.tile.n))
        /\ cube.out.batches = cube.problem.num_batches

\* ---------------------------------------------------- tensors of the tests
\* tensor_raw_parts, transpose, tensor_size, shape and strides
\* (matmul_test_launcher.rs), over MatmulProblem values

\* the largest m, n, k and the largest batch extent tried
MaxDim == 2
MaxBatch == 2

\* numbers of batch dimensions tried for one operand
BatchRanks == 0..2

MatrixLayouts == {"RowMajor", "ColMajor"}

Idents == {"Lhs", "Rhs", "Out"}

RECURSIVE Product(_)
Product(s) == IF s = << >> THEN 1 ELSE Head(s) * Product(Tail(s))

\* iter().rev().collect()
Reverse(s) == [i \in 1..Len(s) |-> s[Len(s) + 1 - i]]

Max(a, b) == IF a >= b THEN a ELSE b

\* the extent of batch axis i counted from the last one; 1 where the list is shorter
FromLast(s, i) == IF i <= Len(s) THEN s[Len(s) + 1 - i] ELSE 1

\* the two batch lists are broadcast-compatible: aligned at the last axis,
\* the extents are equal or one of them is 1
Broadcastable(l, r) ==
    \A i \in 1..Max(Len(l), Len(r)) :
        FromLast(l, i) = FromLast(r, i) \/ FromLast(l, i) = 1 \/ FromLast(r, i) = 1

\* the broadcast of two compatible batch lists
batch_broadcast(l, r) ==
    LET rank == Max(Len(l), Len(r))
    IN  [a \in 1..rank |-> Max(FromLast(l, rank + 1 - a), FromLast(r, rank + 1 - a))]

\* MatmulProblem::batch_dims: the output batch shape
batch_dims(problem) == batch_broadcast(problem.batches[1], problem.batches[2])

\* MatmulProblem::num_batches
num_batches(problem) == Product(batch_dims(problem))

BatchLists == UNION { [1..r -> 1..MaxBatch] : r \in BatchRanks }

Problems ==
    { p \in [m : 1..MaxDim, n : 1..MaxDim, k : 1..MaxDim,
             batches : BatchLists \X BatchLists,
             lhs_layout : MatrixLayouts, rhs_layout : MatrixLayouts] :
        Broadcastable(p.batches[1], p.batches[2]) }

tensor_size(problem, ident) ==
    CASE ident = "Lhs" -> num_batches(problem) * problem.m * problem.k
      [] ident = "Rhs" -> num_batches(problem) * problem.k * problem.n
      [] ident = "Out" -> num_batches(problem) * problem.m * problem.n

\* a shape that swaps the two matrix axes of Rhs
shape_rhs_swapped(problem, ident) ==
    CASE ident = "Lhs" -> problem.batches[1] \o << problem.m, problem.k >>
      [] ident = "Rhs" -> problem.batches[2] \o << problem.n, problem.k >>
      [] ident = "Out" -> batch_dims(problem) \o << problem.m, problem.n >>

shape(problem, ident) ==
    CASE ident = "Lhs" -> problem.batches[1] \o << problem.m, problem.k >>
      [] ident = "Rhs" -> problem.batches[2] \o << problem.k, problem.n >>
      [] ident = "Out" -> batch_dims(problem) \o << problem.m, problem.n >>

\* let (last_batch, x, y) = match ident { .. }
StrideBase(problem, ident) ==
    CASE ident = "Lhs" /\ problem.lhs_layout = "RowMajor" ->
            << problem.m * problem.k, problem.k, 1 >>
      [] ident = "Lhs" /\ problem.lhs_layout = "ColMajor" ->
            << problem.m * problem.k, 1, problem.m >>
      [] ident = "Rhs" /\ problem.rhs_layout = "RowMajor" ->
            << problem.k * problem.n, problem.n, 1 >>
      [] ident = "Rhs" /\ problem.rhs_layout = "ColMajor" ->
            << problem.k * problem.n, 1, problem.k >>
      [] ident = "Out" -> << problem.m * problem.n, problem.n, 1 >>

strides(problem, ident) ==
    LET s == shape(problem, ident)
        rank == Len(s)
        last_batch == StrideBase(problem, ident)[1]
        x == StrideBase(problem, ident)[2]
        y == StrideBase(problem, ident)[3]
        \* for b in shape.iter().rev().take(rank - 3) { push(last_batch * b) }
        pushed == << y, x >> \o
                  (IF rank > 2
                   THEN << last_batch >> \o
                        [i \in 1..(rank - 3) |-> last_batch * Reverse(s)[i]]
                   ELSE << >>)
    IN  Reverse(pushed)

\* generate_random_data(size, seed): size elements; element p stands for itself,
\* so that two places of a buffer never hold equal elements
generate_random_data(size) == [p \in 1..size |-> p - 1]

\* the loop nest of transpose after its first t assignments, in loop order:
\* b = t / (rows * cols), i = (t / cols) % rows, j = t % cols
RECURSIVE TransposeLoop(_, _, _, _)
TransposeLoop(array, rows, cols, t) ==
    IF t = 0 THEN [p \in 1..Len(array) |-> array[1]]
    ELSE LET b == (t - 1) \div (rows * cols)
             i == ((t - 1) \div cols) % rows
             j == (t - 1) % cols
         IN  [TransposeLoop(array, rows, cols, t - 1)
                 EXCEPT ![(b * rows * cols) + j * rows + i + 1] =
                            array[(b * rows * cols) + i * cols + j + 1]]

transpose(array, batches, rows, cols) ==
    TransposeLoop(array, rows, cols, batches * rows * cols)

TensorRawParts(handle, s, st, original_data) ==
    [handle |-> handle, shape |-> s, strides |-> st, original_data |-> original_data]

\* the handle stands for the buffer the client holds; client.empty leaves
\* every element unwritten (-1)
tensor_raw_parts(problem, ident) ==
    LET original_data == generate_random_data(tensor_size(problem, ident))
    IN  CASE ident = "Lhs" ->
                TensorRawParts(
                    IF problem.lhs_layout = "RowMajor" THEN original_data
                    ELSE transpose(original_data, num_batches(problem), problem.m, problem.k),
                    shape(problem, "Lhs"), strides(problem, "Lhs"), original_data)
          [] ident = "Rhs" ->
                TensorRawParts(
                    IF problem.rhs_layout = "RowMajor" THEN original_data
                    ELSE transpose(original_data, num_batches(problem), problem.k, problem.n),
                    shape(problem, "Rhs"), strides(problem, "Rhs"), original_data)
          [] ident = "Out" ->
                TensorRawParts(
                    [p \in 1..tensor_size(problem, "Out") |-> -1],
                    shape(problem, "Out"), strides(problem, "Out"), None)

TensorInit ==
    /\ CoreInit
    /\ run = [pc |-> "idle"]
    /\ cube = [pc |-> "idle"]
    /\ emitted = [pc |-> "idle"]
    /\ numeric = [pc |-> "idle"]
    /\ \E problem \in Problems : tensor = [pc |-> "ready", problem |-> problem]

\* the call tensor_raw_parts(&client, &problem, ident)
tensor_raw_parts_call(ident) ==
    /\ tensor.pc = "ready"
    /\ tensor' = [pc |-> "built", problem |-> tensor.problem, ident |-> ident,
                  size |-> tensor_size(tensor.problem, ident),
                  parts |-> tensor_raw_parts(tensor.problem, ident)]
    /\ UNCHANGED <<allocVars, launchVars, run, cube, emitted, numeric>>

TensorNext == \E ident \in Idents : tensor_raw_parts_call(ident)

TensorSpec == TensorInit /\ [][TensorNext]_vars

\* the layout of the tensor built: Out is always written row-major
LayoutOf(problem, ident) ==
    CASE ident = "Lhs" -> problem.lhs_layout
      [] ident = "Rhs" -> problem.rhs_layout
      [] ident = "Out" -> "RowMajor"

\* the product of the extents of the axes after axis a
Following(s, a) == Product(SubSeq(s, a + 1, Len(s)))

\* C14: for a row-major operand of any rank, strides gives the last axis
\* stride 1 and every other axis the product of the extents of the axes
\* that follow it in shape.
C14_RowMajorStridesAreContiguous ==
    (tensor.pc = "built" /\ LayoutOf(tensor.problem, tensor.ident) = "RowMajor") =>
        /\ Len(tensor.parts.strides) = Len(tensor.parts.shape)
        /\ \A a \in DOMAIN tensor.parts.shape :
            tensor.parts.strides[a] = Following(tensor.parts.shape, a)

Indices(s) == { ix \in [DOMAIN s -> 0..(MaxDim + MaxBatch)] : \A a \in DOMAIN s : ix[a] < s[a] }

RECURSIVE Dot(_, _)
Dot(ix, st) == IF st = << >> THEN 0 ELSE Head(ix) * Head(st) + Dot(Tail(ix), Tail(st))

\* the offset of the element at multi-index ix under the strides st
Offset(ix, st) == Dot([a \in 1..Len(st) |-> ix[a]], st)

\* the problem with the layout of operand ident set row-major
AsRowMajor(problem, ident) ==
    CASE ident = "Lhs" -> [problem EXCEPT !.lhs_layout = "RowMajor"]
      [] ident = "Rhs" -> [problem EXCEPT !.rhs_layout = "RowMajor"]
      [] ident = "Out" -> problem

\* C16: a ColMajor layout changes the storage and the strides only, not the
\* logical matrix: for every batch, row i and column j, the element of the
\* transposed buffer at the offset the ColMajor strides give is the element
\* of the original buffer at the offset the RowMajor strides give; both
\* offsets lie inside their buffers.
C16_ColMajorKeepsLogicalMatrix ==
    (tensor.pc = "built" /\ tensor.ident # "Out"
        /\ LayoutOf(tensor.problem, tensor.ident) = "ColMajor") =>
        \A ix \in Indices(tensor.parts.shape) :
            LET col == Offset(ix, tensor.parts.strides)
                row == Offset(ix, strides(AsRowMajor(tensor.problem, tensor.ident), tensor.ident))
            IN  /\ col < Len(tensor.parts.handle)
                /\ row < Len(tensor.parts.original_data)
                /\ tensor.parts.handle[col + 1] = tensor.parts.original_data[row + 1]

\* C19: for every problem, also one whose operands have different
\* (broadcast) batch dimensions, tensor_size(problem, ident) is the product
\* of the extents of shape(problem, ident), for Lhs, Rhs and Out.
C19_TensorSizeIsShapeProduct ==
    tensor.pc = "built" =>
        /\ tensor.size = Product(tensor.parts.shape)
        /\ tensor.ident # "Out" => Len(tensor.parts.original_data) = Product(tensor.parts.shape)

\* ------------------------------------------------------------ the pipeline
\* PipelineOps and its Display (cubecl-cpp shared/pipeline.rs)

\* PipelineOps values formatted in one kernel
MaxOps == 3

\* Variable values naming pipelines, and the copies' source and destination
PipelineVars == {"pipeline_0"}

\* a source Variable: its name and its item's elem().size() and vectorization
SourceVars == { [name |-> "input_0", size |-> 4, vectorization |-> 4] }

DestinationVars == {"shared_memory_0"}

\* num_stages: u8 values tried
NumStages == {2, 4}

PipelineOps ==
    [op : {"Init"}, pipeline : PipelineVars, num_stages : NumStages]
        \cup [op : {"MemCopyAsync"}, pipeline : PipelineVars, source : SourceVars,
              destination : DestinationVars]
        \cup [op : {"ProducerAcquire", "ProducerCommit", "ConsumerWait", "ConsumerRelease"},
              pipeline : PipelineVars]

\* the text write! produces for one operation: the statement and the values
\* put into it
Written(o) ==
    CASE o.op = "MemCopyAsync" ->
            [stmt |-> "cuda::memcpy_async", destination |-> o.destination,
             source |-> o.source.name,
             size |-> o.source.size * o.source.vectorization,
             pipeline |-> o.pipeline]
      [] o.op = "Init" ->
            [stmt |-> "cuda::pipeline_shared_state; cuda::make_pipeline",
             num_stages |-> o.num_stages, pipeline |-> o.pipeline]
      [] o.op = "ProducerAcquire" -> [stmt |-> "producer_acquire", pipeline |-> o.pipeline]
      [] o.op = "ProducerCommit" -> [stmt |-> "producer_commit", pipeline |-> o.pipeline]
      [] o.op = "ConsumerWait" -> [stmt |-> "consumer_wait", pipeline |-> o.pipeline]
      [] o.op = "ConsumerRelease" -> [stmt |-> "consumer_release", pipeline |-> o.pipeline]

\* the operations formatted before on the pipeline of o include one named op
Before(o, op) ==
    \E i \in DOMAIN emitted.ops :
        emitted.ops[i].op = op /\ emitted.ops[i].pipeline = o.pipeline

\* a fmt that refuses a commit without an acquire and a release without a wait
fmt_validating(o) ==
    /\ emitted.pc = "emitting"
    /\ Len(emitted.ops) < MaxOps
    /\ IF \/ (o.op = "ProducerCommit" /\ ~Before(o, "ProducerAcquire"))
          \/ (o.op = "ConsumerRelease" /\ ~Before(o, "ConsumerWait"))
       THEN emitted' = [emitted EXCEPT !.ops = Append(@, o), !.result = "Err"]
       ELSE emitted' = [emitted EXCEPT !.ops = Append(@, o),
                                       !.text = Append(@, Written(o))]
    /\ UNCHANGED <<allocVars, launchVars, run, cube, tensor, numeric>>

\* <PipelineOps as Display>::fmt(&self, f): one match on self, one write!
fmt(o) ==
    /\ emitted.pc = "emitting"
    /\ Len(emitted.ops) < MaxOps
    /\ emitted' = [emitted EXCEPT !.ops = Append(@, o),
                                  !.text = Append(@, Written(o))]
    /\ UNCHANGED <<allocVars, launchVars, run, cube, tensor, numeric>>

PipeInit ==
    /\ CoreInit
    /\ run = [pc |-> "idle"]
    /\ cube = [pc |-> "idle"]
    /\ tensor = [pc |-> "idle"]
    /\ numeric = [pc |-> "idle"]
    /\ emitted = [pc |-> "emitting", ops |-> << >>, text |-> << >>, result |-> "Ok"]

PipeNext == \E o \in PipelineOps : fmt(o)

PipeSpec == PipeInit /\ [][PipeNext]_vars

\* C17: the pipeline primitive does not validate the protocol order: every
\* PipelineOps value is emitted on its own, whatever was emitted before on
\* the same pipeline, and every sequence of operations is accepted without
\* error, a commit without an acquire or a release without a wait included.
C17_NoProtocolValidation ==
    emitted.pc = "emitting" =>
        /\ emitted.result = "Ok"
        /\ Len(emitted.text) = Len(emitted.ops)
        /\ \A i \in DOMAIN emitted.ops : emitted.text[i] = Written(emitted.ops[i])
        /\ Len(emitted.ops) < MaxOps => \A o \in PipelineOps : ENABLED fmt(o)

\* a commit was written on a pipeline that saw no acquire, and a release
\* on one that saw no wait
C17_Witness ==
    /\ emitted.pc = "emitting"
    /\ emitted.result = "Ok"
    /\ Len(emitted.text) = Len(emitted.ops)
    /\ \E i, j \in DOMAIN emitted.ops :
        /\ emitted.ops[i].op = "ProducerCommit"
        /\ emitted.ops[j].op = "ConsumerRelease"
        /\ \A x \in DOMAIN emitted.ops :
            emitted.ops[x].op \notin {"ProducerAcquire", "ConsumerWait", "Init"}

\* the step is a create_local_mut call
MutCall == last'.op = "create_local_mut"

\* what reuse_local_mut finds for the call of this step, before the call
FoundBefore == reuse_local_mut(allocators[last'.h], last'.item)

\* the pool of the handle the call of this step went through, before and after
PoolBefore == pools[allocators[last'.h].local_mut_pool]
PoolAfter == pools'[allocators[last'.h].local_mut_pool]

\* the step consumed exactly one id, the one it returned
OneIdConsumed ==
    /\ issued' = Append(issued, RetId')
    /\ counters' = [counters EXCEPT ![allocators[last'.h].next_id] = @ + 1]

\* the step appended the binding it returned to its item's list and left
\* every other list as it was
OneEntryAppended ==
    /\ PoolAfter[last'.item] = Append(PoolBefore[last'.item], last'.ret)
    /\ \A it \in Items \ {last'.item} : PoolAfter[it] = PoolBefore[it]

\* a reusing call consumes no id and leaves the pool as it was
ReuseFrame == issued' = issued /\ counters' = counters /\ pools' = pools

\* C18: a create_local_mut call that reuses a free pooled binding leaves the
\* id counter and the pool unchanged; a call that finds no free binding for
\* the item consumes exactly one id and appends exactly one entry to that
\* item's list, leaving the lists of all other items unchanged.
C18_FrameOfCreateLocalMut ==
    [][MutCall =>
        /\ (~is_atomic(last'.item.elem) /\ FoundBefore # None) => ReuseFrame
        /\ FoundBefore = None => (OneIdConsumed /\ OneEntryAppended)]_vars

\* C18 as amended: as above for a non-atomic item; a call for an atomic item
\* consumes exactly one id and leaves the pool unchanged.
C18_FrameOfCreateLocalMutNonAtomic ==
    [][MutCall =>
        IF is_atomic(last'.item.elem)
        THEN OneIdConsumed /\ pools' = pools
        ELSE IF FoundBefore # None
             THEN ReuseFrame
             ELSE OneIdConsumed /\ OneEntryAppended]_vars

\* a create_local_mut call found nothing free and registered a new binding
\* while the list of another item held an entry
C18_Witness ==
    /\ last.op = "create_local_mut"
    /\ last.ret.tag = "Managed"
    /\ issued # << >>
    /\ issued[Len(issued)] = RetId
    /\ LET pool == pools[allocators[last.h].local_mut_pool]
       IN  /\ pool[last.item] # << >>
           /\ pool[last.item][Len(pool[last.item])] = last.ret
           /\ \E it \in Items \ {last.item} : pool[it] # << >>

\* ------------------------------------------------------------- Vectorized
\* impl Vectorized for the float and int elements (frontend/element/float.rs,
\* int.rs): impl_float! and impl_int! expand to the same two methods

\* the largest small factor tried, beside the largest a u8 holds
MaxFactor == 4

\* 2^8: a u8 holds 0..255
U8Modulus == 256

\* the types impl_float! and impl_int! are expanded for
Elements == {"F16", "BF16", "F32", "F64", "I32", "I64"}

\* UInt { val, vectorization }
UInt(val, vectorization) == [val |-> val, vectorization |-> vectorization]

\* `x as u32` of a u8: the same value, zero-extended
u8_as_u32(x) == x % U8Modulus

\* fn vectorize(mut self, factor: UInt) -> Self
vectorize(self, factor) == [self EXCEPT !.vectorization = factor.vectorization]

\* fn vectorization_factor(&self) -> UInt
vectorization_factor(self) == UInt(u8_as_u32(self.vectorization), 1)

\* factor values that fit in 8 bits, and vectorizations of the factor itself
FactorVals == 0..MaxFactor \cup {U8Modulus - 1}

Factors == { UInt(val, vectorization) : val \in FactorVals, vectorization \in {1, 2, 4} }

VectorInit ==
    /\ CoreInit
    /\ run = [pc |-> "idle"]
    /\ cube = [pc |-> "idle"]
    /\ tensor = [pc |-> "idle"]
    /\ emitted = [pc |-> "idle"]
    /\ \E elem \in Elements, v \in {1, 4}, factor \in Factors :
        numeric = [pc |-> "new", elem |-> elem,
                   self |-> [val |-> 0, vectorization |-> v], factor |-> factor]

\* let x = self.vectorize(factor)
vectorize_call ==
    /\ numeric.pc = "new"
    /\ numeric' = [numeric EXCEPT !.pc = "vectorized",
                                  !.self = vectorize(numeric.self, numeric.factor)]
    /\ UNCHANGED <<allocVars, launchVars, run, cube, tensor, emitted>>

\* x.vectorization_factor()
vectorization_factor_call ==
    /\ numeric.pc = "vectorized"
    /\ numeric' = [pc |-> "done", elem |-> numeric.elem, self |-> numeric.self,
                   factor |-> numeric.factor, out |-> vectorization_factor(numeric.self)]
    /\ UNCHANGED <<allocVars, launchVars, run, cube, tensor, emitted>>

VectorNext == vectorize_call \/ vectorization_factor_call

VectorSpec == VectorInit /\ [][VectorNext]_vars

\* C20: for F16, BF16, F32, F64, I32 and I64, vectorize(factor) followed by
\* vectorization_factor() returns a factor whose value is factor.val, for
\* every factor value that fits in 8 bits.
C20_VectorizeRoundTrip ==
    numeric.pc = "done" => numeric.out.val = numeric.factor.val
====
